---- MODULE Spec2Model ----
(***************************************************************************)
(* Model of maidsafe::drive::Launcher (src/maidsafe/drive/tools/launcher.cc) *)
(* and of the child-side helpers of the same file.  Two processes, the     *)
(* launcher and the spawned drive process, share the Mount-Status Region:  *)
(* an interprocess mutex, a condition variable and the flags `mounted` and *)
(* `unmount`.  Each action is one step of one of the two processes.        *)
(***************************************************************************)
EXTENDS Integers, Sequences, FiniteSets, TLC

\* ------------------------------------------------------------------ bounds
\* how many times the owner calls StopDriveProcess explicitly before the
\* destructor runs
MaxStops == 2

\* ---------------------------------------------------------------- constants
NULL == "null"
NoOwner == "nobody"
NoSegment == <<>>

\* enum SharedMemoryArgIndex
kMountPathArg == 0
kStoragePathArg == 1
kUniqueIdArg == 2
kRootParentIdArg == 3
kDriveNameArg == 4
kCreateStoreArg == 5
kMaxArgIndex == 6

\* enum class DriveType, and a value outside the enum
DriveTypes == {"kLocal", "kLocalConsole", "kNetwork", "kNetworkConsole"}
BadDriveType == "kOutOfRange"

\* Options handed to the constructor
OptionsSet ==
  [mount_path : {"/tmp/x"}, storage_path : {"/tmp/y"}, unique_id : {"uid"},
   root_parent_id : {"rpid"}, drive_name : {"MyDrive"},
   create_store : BOOLEAN, drive_type : {"kLocal", "kNetworkConsole", BadDriveType}]

NoOptions ==
  [mount_path |-> "", storage_path |-> "", unique_id |-> "",
   root_parent_id |-> "", drive_name |-> "", create_store |-> FALSE]

VARIABLES
  lpc,             \* launcher: position in Launcher(), StopDriveProcess(), ~Launcher()
  stopCtx,         \* who called StopDriveProcess: "ctor" guard, "explicit", "dtor"
  error,           \* the exception propagating out of the constructor
  options,         \* the constructor's argument
  drive_process,   \* drive_process_: NULL, "child" or "invalid" (failed spawn)
  segment,         \* Bootstrap Segment contents, NoSegment when the name does not exist
  statusExists,    \* the Mount-Status Region's name exists
  ms,              \* MountStatus: [mounted, unmount]
  mutexOwner,      \* MountStatus::mutex
  cvWaiting,       \* processes blocked in MountStatus::condition
  lTimedOut,       \* the launcher's current timed_wait has passed its deadline
  cpc,             \* child: position in its protocol
  mount_and_wait,  \* child: the argument of the running DoNotifyMountStatus
  childOptions,    \* Options filled by ReadAndRemoveInitialSharedMemory
  hist             \* history: what has happened so far (observation only)

vars == <<lpc, stopCtx, error, options, drive_process, segment, statusExists, ms,
          mutexOwner, cvWaiting, lTimedOut, cpc, mount_and_wait, childOptions, hist>>

ChildAlive == cpc \notin {"none", "exited", "killed"}

\* ---------------------------------------------------------------- helpers

\* Launcher::GetDriveExecutablePath: the executable name, or "" after the throw
GetDriveExecutablePath(drive_type) ==
  CASE drive_type = "kLocal" -> "local_drive"
    [] drive_type = "kLocalConsole" -> "local_drive_console"
    [] drive_type = "kNetwork" -> "network_drive"
    [] drive_type = "kNetworkConsole" -> "network_drive_console"
    [] OTHER -> ""

\* the arguments written by Launcher::CreateInitialSharedMemory
SharedMemoryArgs(o) ==
  [i \in 0..(kMaxArgIndex - 1) |->
     CASE i = kMountPathArg -> o.mount_path
       [] i = kStoragePathArg -> o.storage_path
       [] i = kUniqueIdArg -> o.unique_id
       [] i = kRootParentIdArg -> o.root_parent_id
       [] i = kDriveNameArg -> o.drive_name
       [] i = kCreateStoreArg -> IF o.create_store THEN "1" ELSE "0"]

\* std::stoi on the strings the segment can hold
StoI(s) == IF s = "1" THEN 1 ELSE 0

\* a slip of ReadOptions: the two identity arguments are read from each
\* other's index
ReadOptions_SwappedIds(args) ==
  [mount_path |-> args[kMountPathArg],
   storage_path |-> args[kStoragePathArg],
   unique_id |-> args[kRootParentIdArg],
   root_parent_id |-> args[kUniqueIdArg],
   drive_name |-> args[kDriveNameArg],
   create_store |-> (StoI(args[kCreateStoreArg]) # 0)]

\* the Options filled by ReadAndRemoveInitialSharedMemory from the segment
ReadOptions(args) ==
  [mount_path |-> args[kMountPathArg],
   storage_path |-> args[kStoragePathArg],
   unique_id |-> args[kUniqueIdArg],
   root_parent_id |-> args[kRootParentIdArg],
   drive_name |-> args[kDriveNameArg],
   create_store |-> (StoI(args[kCreateStoreArg]) # 0)]

\* a slip of MountedPred: the wait does not look at the flag
MountedPred_Always(m) == TRUE

\* the predicate of WaitForDriveToMount's timed_wait
MountedPred(m) == m.mounted

\* the predicate of StopDriveProcess's timed_wait
UnmountedPred(m) == ~m.mounted

\* a slip of UnmountRequestedPred: the wait does not look at the flag
UnmountRequestedPred_Always(m) == TRUE

\* the predicate of DoNotifyMountStatus's wait
UnmountRequestedPred(m) == m.unmount

\* condition.notify_one(): wakes one of the waiters, if there is one
NotifyOne ==
  \E w \in (IF cvWaiting = {} THEN {{}} ELSE {cvWaiting \ {p} : p \in cvWaiting}) :
    cvWaiting' = w

\* a slip of Lock: the mutex is taken without waiting for its owner
Lock_NoWait(p) == mutexOwner' = p

\* scoped_lock constructor / re-lock after a condition wait
Lock(p) == mutexOwner = NoOwner /\ mutexOwner' = p

\* ---------------------------------------------------------------- initial state
Init ==
  /\ lpc = "Ctor_createInitial"
  /\ stopCtx = "none"
  /\ error = "none"
  /\ options \in OptionsSet
  /\ drive_process = NULL
  /\ segment = NoSegment
  /\ statusExists = FALSE
  /\ ms = [mounted |-> FALSE, unmount |-> FALSE]
  /\ mutexOwner = NoOwner
  /\ cvWaiting = {}
  /\ lTimedOut = FALSE
  /\ cpc = "none"
  /\ mount_and_wait = FALSE
  /\ childOptions = NoOptions
  /\ hist = [observedMounted |-> FALSE, notifies |-> 0, lastWriter |-> NoOwner,
             terminates |-> 0, statusRemoves |-> 0, statusCreated |-> FALSE,
             mountTimedOut |-> FALSE, unmountTimedOut |-> FALSE,
             exitObserved |-> FALSE, spawned |-> FALSE, reachedMounted |-> FALSE,
             stopReturns |-> 0, explicitStops |-> 0,
             guardRuns |-> 0, handshakes |-> 0,
             bootstrapRead |-> FALSE, childFaulted |-> FALSE,
             mountedUps |-> 0, mountedDowns |-> 0, unmountUps |-> 0,
             mountWaitBlocked |-> FALSE,
             stopThrew |-> "none", logged |-> 0, raised |-> FALSE]

\* ------------------------------------------------------- Launcher::Launcher

\* an exception leaves the constructor body: cleanup_on_throw runs StopDriveProcess
Throw(kind) ==
  /\ error' = kind
  /\ lpc' = "Stop_entry"
  /\ stopCtx' = "ctor"

\* CreateInitialSharedMemory succeeds
CreateInitialSharedMemory ==
  /\ lpc = "Ctor_createInitial"
  /\ segment' = SharedMemoryArgs(options)
  /\ lpc' = "Ctor_createStatus"
  /\ UNCHANGED <<stopCtx, error, options, drive_process, statusExists, ms, mutexOwner,
                 cvWaiting, lTimedOut, cpc, mount_and_wait, childOptions, hist>>

\* ipc::CreateSharedMemory throws: nothing was created
CreateInitialSharedMemoryFails ==
  /\ lpc = "Ctor_createInitial"
  /\ Throw("resource_unavailable")
  /\ hist' = [hist EXCEPT !.guardRuns = @ + 1]
  /\ UNCHANGED <<options, drive_process, segment, statusExists, ms, mutexOwner,
                 cvWaiting, lTimedOut, cpc, mount_and_wait, childOptions>>

\* CreateMountStatusSharedMemory succeeds: placement-new MountStatus
CreateMountStatusSharedMemory ==
  /\ lpc = "Ctor_createStatus"
  /\ statusExists' = TRUE
  /\ ms' = [mounted |-> FALSE, unmount |-> FALSE]
  /\ lpc' = "Ctor_start"
  /\ hist' = [hist EXCEPT !.statusCreated = TRUE]
  /\ UNCHANGED <<stopCtx, error, options, drive_process, segment, mutexOwner,
                 cvWaiting, lTimedOut, cpc, mount_and_wait, childOptions>>

\* bi::shared_memory_object(create_only, ...) throws
CreateMountStatusSharedMemoryFails ==
  /\ lpc = "Ctor_createStatus"
  /\ Throw("resource_unavailable")
  /\ hist' = [hist EXCEPT !.guardRuns = @ + 1]
  /\ UNCHANGED <<options, drive_process, segment, statusExists, ms, mutexOwner,
                 cvWaiting, lTimedOut, cpc, mount_and_wait, childOptions>>

\* StartDriveProcess: GetDriveExecutablePath throws invalid_parameter
StartDriveProcessBadType ==
  /\ lpc = "Ctor_start"
  /\ GetDriveExecutablePath(options.drive_type) = ""
  /\ Throw("invalid_parameter")
  /\ hist' = [hist EXCEPT !.guardRuns = @ + 1]
  /\ UNCHANGED <<options, drive_process, segment, statusExists, ms, mutexOwner,
                 cvWaiting, lTimedOut, cpc, mount_and_wait, childOptions>>

\* StartDriveProcess: bp::execute starts the child
StartDriveProcess ==
  /\ lpc = "Ctor_start"
  /\ GetDriveExecutablePath(options.drive_type) # ""
  /\ drive_process' = "child"
  /\ cpc' = "started"
  /\ lpc' = "Wait_lock"
  /\ hist' = [hist EXCEPT !.spawned = TRUE]
  /\ UNCHANGED <<stopCtx, error, options, segment, statusExists, ms, mutexOwner,
                 cvWaiting, lTimedOut, mount_and_wait, childOptions>>

\* StartDriveProcess: bp::execute sets error_code; drive_process_ was reset to
\* the returned bp::child before error_code is looked at
StartDriveProcessFails ==
  /\ lpc = "Ctor_start"
  /\ GetDriveExecutablePath(options.drive_type) # ""
  /\ drive_process' = "invalid"
  /\ Throw("uninitialised")
  /\ hist' = [hist EXCEPT !.guardRuns = @ + 1]
  /\ UNCHANGED <<options, segment, statusExists, ms, mutexOwner,
                 cvWaiting, lTimedOut, cpc, mount_and_wait, childOptions>>

\* ---------------------------------------------- Launcher::WaitForDriveToMount

\* scoped_lock lock(mount_status_->mutex)
WaitLock ==
  /\ lpc = "Wait_lock"
  /\ Lock("launcher")
  /\ lpc' = "Wait_check"
  /\ lTimedOut' = FALSE
  /\ UNCHANGED <<stopCtx, error, options, drive_process, segment, statusExists, ms,
                 cvWaiting, cpc, mount_and_wait, childOptions, hist>>

\* a slip of WaitMounted: cleanup_on_throw is not released, so the guard runs
\* StopDriveProcess at the end of a successful constructor
WaitMounted_NoRelease ==
  /\ lpc = "Wait_check"
  /\ MountedPred(ms)
  /\ mutexOwner' = NoOwner
  /\ lpc' = "Stop_entry"
  /\ stopCtx' = "ctor"
  /\ lTimedOut' = FALSE
  /\ hist' = [hist EXCEPT !.observedMounted = ms.mounted, !.reachedMounted = TRUE,
                          !.guardRuns = @ + 1]
  /\ UNCHANGED <<error, options, drive_process, segment, statusExists, ms,
                 cvWaiting, cpc, mount_and_wait, childOptions>>

\* timed_wait: the predicate holds; WaitForDriveToMount returns, the guard is
\* released and the constructor completes
WaitMounted ==
  /\ lpc = "Wait_check"
  /\ MountedPred(ms)
  /\ mutexOwner' = NoOwner
  /\ lpc' = "Mounted"
  /\ lTimedOut' = FALSE
  /\ hist' = [hist EXCEPT !.observedMounted = ms.mounted, !.reachedMounted = TRUE]
  /\ UNCHANGED <<stopCtx, error, options, drive_process, segment, statusExists, ms,
                 cvWaiting, cpc, mount_and_wait, childOptions>>

\* a slip of WaitBlock: the condition is waited on before the predicate is looked at
WaitBlock_BeforeCheck ==
  /\ lpc = "Wait_check"
  /\ ~lTimedOut
  /\ mutexOwner' = NoOwner
  /\ cvWaiting' = cvWaiting \cup {"launcher"}
  /\ lpc' = "Wait_wait"
  /\ hist' = [hist EXCEPT !.mountWaitBlocked = TRUE]
  /\ UNCHANGED <<stopCtx, error, options, drive_process, segment, statusExists, ms,
                 lTimedOut, cpc, mount_and_wait, childOptions>>

\* timed_wait: the predicate is false before the deadline; block on the condition
WaitBlock ==
  /\ lpc = "Wait_check"
  /\ ~MountedPred(ms)
  /\ ~lTimedOut
  /\ mutexOwner' = NoOwner
  /\ cvWaiting' = cvWaiting \cup {"launcher"}
  /\ lpc' = "Wait_wait"
  /\ hist' = [hist EXCEPT !.mountWaitBlocked = TRUE]
  /\ UNCHANGED <<stopCtx, error, options, drive_process, segment, statusExists, ms,
                 lTimedOut, cpc, mount_and_wait, childOptions>>

\* timed_wait: the absolute deadline passes; a blocked launcher wakes up
WaitDeadline ==
  /\ lpc \in {"Wait_check", "Wait_wait"}
  /\ ~lTimedOut
  /\ cvWaiting' = cvWaiting \ {"launcher"}
  /\ lTimedOut' = TRUE
  /\ UNCHANGED <<lpc, stopCtx, error, options, drive_process, segment, statusExists, ms,
                 mutexOwner, cpc, mount_and_wait, childOptions, hist>>

\* timed_wait: woken (or deadline passed); re-lock the mutex
WaitRelock ==
  /\ lpc = "Wait_wait"
  /\ "launcher" \notin cvWaiting
  /\ Lock("launcher")
  /\ lpc' = "Wait_check"
  /\ UNCHANGED <<stopCtx, error, options, drive_process, segment, statusExists, ms,
                 cvWaiting, lTimedOut, cpc, mount_and_wait, childOptions, hist>>

\* timed_wait returned pred() == false after the deadline: ThrowError(failed_to_mount)
WaitTimedOut ==
  /\ lpc = "Wait_check"
  /\ ~MountedPred(ms)
  /\ lTimedOut
  /\ mutexOwner' = NoOwner
  /\ Throw("failed_to_mount")
  /\ lTimedOut' = FALSE
  /\ hist' = [hist EXCEPT !.mountTimedOut = TRUE, !.guardRuns = @ + 1]
  /\ UNCHANGED <<options, drive_process, segment, statusExists, ms,
                 cvWaiting, cpc, mount_and_wait, childOptions>>

\* --------------------------------------------- Launcher::StopDriveProcess

\* StopDriveProcess returns to its caller: the constructor's guard (the
\* exception then leaves the constructor), the owner, or the destructor
Return ==
  /\ lpc' = CASE stopCtx = "ctor" -> "Failed"
              [] stopCtx = "explicit" -> "Idle"
              [] OTHER -> "Dtor_removeInitial"
  /\ stopCtx' = "none"

\* if (!drive_process_) return;
StopEarlyReturn ==
  /\ lpc = "Stop_entry"
  /\ drive_process = NULL
  /\ Return
  /\ hist' = [hist EXCEPT !.stopReturns = @ + 1]
  /\ UNCHANGED <<error, options, drive_process, segment, statusExists, ms, mutexOwner,
                 cvWaiting, lTimedOut, cpc, mount_and_wait, childOptions>>

\* drive_process_ is set: go on to the scoped_lock
StopEntry ==
  /\ lpc = "Stop_entry"
  /\ drive_process # NULL
  /\ lpc' = "Stop_lock"
  /\ UNCHANGED <<stopCtx, error, options, drive_process, segment, statusExists, ms,
                 mutexOwner, cvWaiting, lTimedOut, cpc, mount_and_wait, childOptions, hist>>

\* scoped_lock lock(mount_status_->mutex)
StopLock ==
  /\ lpc = "Stop_lock"
  /\ Lock("launcher")
  /\ lpc' = "Stop_signal"
  /\ UNCHANGED <<stopCtx, error, options, drive_process, segment, statusExists, ms,
                 cvWaiting, lTimedOut, cpc, mount_and_wait, childOptions, hist>>

\* a slip of StopSignal: the launcher clears `mounted` instead of setting `unmount`
StopSignal_WritesMounted ==
  /\ lpc = "Stop_signal"
  /\ ms' = [ms EXCEPT !.mounted = FALSE]
  /\ NotifyOne
  /\ lTimedOut' = FALSE
  /\ lpc' = "Stop_check"
  /\ hist' = [hist EXCEPT !.notifies = @ + 1, !.lastWriter = "launcher",
                          !.handshakes = @ + 1]
  /\ UNCHANGED <<stopCtx, error, options, drive_process, segment, statusExists,
                 mutexOwner, cpc, mount_and_wait, childOptions>>

\* mount_status_->unmount = true; condition.notify_one();
StopSignal ==
  /\ lpc = "Stop_signal"
  /\ ms' = [ms EXCEPT !.unmount = TRUE]
  /\ NotifyOne
  /\ lTimedOut' = FALSE
  /\ lpc' = "Stop_check"
  /\ hist' = [hist EXCEPT !.notifies = @ + 1, !.lastWriter = "launcher",
                          !.handshakes = @ + 1,
                          !.unmountUps = @ + (IF ms.unmount THEN 0 ELSE 1)]
  /\ UNCHANGED <<stopCtx, error, options, drive_process, segment, statusExists,
                 mutexOwner, cpc, mount_and_wait, childOptions>>

\* a slip of CaughtBy: the destructor has no try/catch around StopDriveProcess
CaughtBy_CtorOnly(ctx) == ctx = "ctor"

\* the callers of StopDriveProcess that wrap it in try { } catch (std::exception)
\* and log: the constructor's cleanup_on_throw guard and the destructor
CaughtBy(ctx) == ctx \in {"ctor", "dtor"}

\* the scoped_lock constructor throws (interprocess_exception): StopDriveProcess
\* is left by the exception.  A catching caller logs and goes on; otherwise the
\* exception reaches the owner (out of the destructor: "Raised").
StopLockThrows ==
  /\ lpc = "Stop_lock"
  /\ lpc' = IF CaughtBy(stopCtx)
              THEN (IF stopCtx = "ctor" THEN "Failed" ELSE "Dtor_removeInitial")
              ELSE (IF stopCtx = "explicit" THEN "Idle" ELSE "Raised")
  /\ stopCtx' = "none"
  /\ hist' = [hist EXCEPT !.stopThrew = stopCtx,
                          !.logged = @ + (IF CaughtBy(stopCtx) THEN 1 ELSE 0),
                          !.raised = @ \/ ~CaughtBy(stopCtx)]
  /\ UNCHANGED <<error, options, drive_process, segment, statusExists, ms, mutexOwner,
                 cvWaiting, lTimedOut, cpc, mount_and_wait, childOptions>>

\* a slip of StopUnmounted: the branches after the timed_wait are swapped, the
\* child is terminated when the unmount wait succeeded
StopUnmounted_Terminate ==
  /\ lpc = "Stop_check"
  /\ UnmountedPred(ms)
  /\ lpc' = "Stop_terminate"
  /\ lTimedOut' = FALSE
  /\ UNCHANGED <<stopCtx, error, options, drive_process, segment, statusExists, ms,
                 mutexOwner, cvWaiting, cpc, mount_and_wait, childOptions, hist>>

\* timed_wait: `mounted` is false, go on to wait_for_exit (the lock stays held)
StopUnmounted ==
  /\ lpc = "Stop_check"
  /\ UnmountedPred(ms)
  /\ lpc' = "Stop_waitexit"
  /\ lTimedOut' = FALSE
  /\ UNCHANGED <<stopCtx, error, options, drive_process, segment, statusExists, ms,
                 mutexOwner, cvWaiting, cpc, mount_and_wait, childOptions, hist>>

\* timed_wait: `mounted` is true before the deadline; block on the condition
StopBlock ==
  /\ lpc = "Stop_check"
  /\ ~UnmountedPred(ms)
  /\ ~lTimedOut
  /\ mutexOwner' = NoOwner
  /\ cvWaiting' = cvWaiting \cup {"launcher"}
  /\ lpc' = "Stop_wait"
  /\ UNCHANGED <<stopCtx, error, options, drive_process, segment, statusExists, ms,
                 lTimedOut, cpc, mount_and_wait, childOptions, hist>>

\* timed_wait: the absolute deadline passes; a blocked launcher wakes up
StopDeadline ==
  /\ lpc \in {"Stop_check", "Stop_wait"}
  /\ ~lTimedOut
  /\ cvWaiting' = cvWaiting \ {"launcher"}
  /\ lTimedOut' = TRUE
  /\ UNCHANGED <<lpc, stopCtx, error, options, drive_process, segment, statusExists, ms,
                 mutexOwner, cpc, mount_and_wait, childOptions, hist>>

\* timed_wait: woken (or deadline passed); re-lock the mutex
StopRelock ==
  /\ lpc = "Stop_wait"
  /\ "launcher" \notin cvWaiting
  /\ Lock("launcher")
  /\ lpc' = "Stop_check"
  /\ UNCHANGED <<stopCtx, error, options, drive_process, segment, statusExists, ms,
                 cvWaiting, lTimedOut, cpc, mount_and_wait, childOptions, hist>>

\* timed_wait returned false after the deadline: LOG(kError), go on to terminate
StopWaitFailed ==
  /\ lpc = "Stop_check"
  /\ ~UnmountedPred(ms)
  /\ lTimedOut
  /\ lpc' = "Stop_terminate"
  /\ lTimedOut' = FALSE
  /\ hist' = [hist EXCEPT !.unmountTimedOut = TRUE]
  /\ UNCHANGED <<stopCtx, error, options, drive_process, segment, statusExists, ms,
                 mutexOwner, cvWaiting, cpc, mount_and_wait, childOptions>>

\* a slip of StopTerminate: the handle is dropped without bp::terminate
StopTerminate_NoKill ==
  /\ lpc = "Stop_terminate"
  /\ drive_process' = NULL
  /\ mutexOwner' = NoOwner
  /\ Return
  /\ hist' = [hist EXCEPT !.stopReturns = @ + 1]
  /\ UNCHANGED <<error, options, segment, statusExists, ms, cvWaiting, lTimedOut,
                 cpc, mount_and_wait, childOptions>>

\* a slip of StopTerminate: bp::terminate without drive_process_ = nullptr
StopTerminate_KeepHandle ==
  /\ lpc = "Stop_terminate"
  /\ cpc' = IF ChildAlive THEN "killed" ELSE cpc
  /\ cvWaiting' = cvWaiting \ {"child"}
  /\ mutexOwner' = NoOwner
  /\ Return
  /\ hist' = [hist EXCEPT !.terminates = @ + 1, !.stopReturns = @ + 1]
  /\ UNCHANGED <<error, options, drive_process, segment, statusExists, ms, lTimedOut,
                 mount_and_wait, childOptions>>

\* bp::terminate(*drive_process_, error_code); drive_process_ = nullptr; return;
StopTerminate ==
  /\ lpc = "Stop_terminate"
  /\ cpc' = IF ChildAlive THEN "killed" ELSE cpc
  /\ cvWaiting' = cvWaiting \ {"child"}
  /\ drive_process' = NULL
  /\ mutexOwner' = NoOwner
  /\ Return
  /\ hist' = [hist EXCEPT !.terminates = @ + 1, !.stopReturns = @ + 1]
  /\ UNCHANGED <<error, options, segment, statusExists, ms, lTimedOut, mount_and_wait,
                 childOptions>>

\* a slip of StopWaitForExit: the handle is dropped without waiting for the exit
StopWaitForExit_NoWait ==
  /\ lpc = "Stop_waitexit"
  /\ drive_process' = NULL
  /\ mutexOwner' = NoOwner
  /\ Return
  /\ hist' = [hist EXCEPT !.exitObserved = (drive_process = "child"),
                          !.stopReturns = @ + 1]
  /\ UNCHANGED <<error, options, segment, statusExists, ms, cvWaiting, lTimedOut,
                 cpc, mount_and_wait, childOptions>>

\* bp::wait_for_exit returns: the child has exited (or the handle never named
\* a process and error_code is set); drive_process_ = nullptr
StopWaitForExit ==
  /\ lpc = "Stop_waitexit"
  /\ drive_process = "invalid" \/ ~ChildAlive
  /\ drive_process' = NULL
  /\ mutexOwner' = NoOwner
  /\ Return
  /\ hist' = [hist EXCEPT !.exitObserved = (drive_process = "child"),
                          !.stopReturns = @ + 1]
  /\ UNCHANGED <<error, options, segment, statusExists, ms, cvWaiting, lTimedOut,
                 cpc, mount_and_wait, childOptions>>

\* ------------------------------------------------ the owner of the Launcher

\* the owner calls StopDriveProcess on the constructed instance
ExplicitStop ==
  /\ lpc \in {"Mounted", "Idle"}
  /\ hist.explicitStops < MaxStops
  /\ lpc' = "Stop_entry"
  /\ stopCtx' = "explicit"
  /\ hist' = [hist EXCEPT !.explicitStops = @ + 1]
  /\ UNCHANGED <<error, options, drive_process, segment, statusExists, ms, mutexOwner,
                 cvWaiting, lTimedOut, cpc, mount_and_wait, childOptions>>

\* ------------------------------------------------------ Launcher::~Launcher

\* the instance goes out of scope: try { StopDriveProcess(); }
Destroy ==
  /\ lpc \in {"Mounted", "Idle"}
  /\ lpc' = "Stop_entry"
  /\ stopCtx' = "dtor"
  /\ UNCHANGED <<error, options, drive_process, segment, statusExists, ms, mutexOwner,
                 cvWaiting, lTimedOut, cpc, mount_and_wait, childOptions, hist>>

\* ipc::RemoveSharedMemory(initial_shared_memory_name_)
DtorRemoveInitial ==
  /\ lpc = "Dtor_removeInitial"
  /\ segment' = NoSegment
  /\ lpc' = "Dtor_removeStatus"
  /\ UNCHANGED <<stopCtx, error, options, drive_process, statusExists, ms, mutexOwner,
                 cvWaiting, lTimedOut, cpc, mount_and_wait, childOptions, hist>>

\* bi::shared_memory_object::remove(GetMountStatusSharedMemoryName(...))
DtorRemoveStatus ==
  /\ lpc = "Dtor_removeStatus"
  /\ statusExists' = FALSE
  /\ lpc' = "Stopped"
  /\ hist' = [hist EXCEPT !.statusRemoves = @ + (IF statusExists THEN 1 ELSE 0)]
  /\ UNCHANGED <<stopCtx, error, options, drive_process, segment, ms, mutexOwner,
                 cvWaiting, lTimedOut, cpc, mount_and_wait, childOptions>>

\* ------------------------------------------------------ the drive process

\* ReadAndRemoveInitialSharedMemory: read the six arguments into Options,
\* then ipc::RemoveSharedMemory
ReadAndRemoveInitialSharedMemory ==
  /\ cpc = "started"
  /\ segment # NoSegment
  /\ childOptions' = ReadOptions(segment)
  /\ segment' = NoSegment
  /\ cpc' = "mounting"
  /\ hist' = [hist EXCEPT !.bootstrapRead = TRUE]
  /\ UNCHANGED <<lpc, stopCtx, error, options, drive_process, statusExists, ms,
                 mutexOwner, cvWaiting, lTimedOut, mount_and_wait>>

\* NotifyMountedAndWaitForUnmountRequest: DoNotifyMountStatus(name, true)
NotifyMountedAndWaitForUnmountRequest ==
  /\ cpc = "mounting"
  /\ mount_and_wait' = TRUE
  /\ cpc' = "dn_open"
  /\ UNCHANGED <<lpc, stopCtx, error, options, drive_process, segment, statusExists, ms,
                 mutexOwner, cvWaiting, lTimedOut, childOptions, hist>>

\* NotifyUnmounted: DoNotifyMountStatus(name, false)
NotifyUnmounted ==
  /\ cpc = "unmounting"
  /\ mount_and_wait' = FALSE
  /\ cpc' = "dn_open"
  /\ UNCHANGED <<lpc, stopCtx, error, options, drive_process, segment, statusExists, ms,
                 mutexOwner, cvWaiting, lTimedOut, childOptions, hist>>

\* DoNotifyMountStatus: shared_memory_object(open_only, ...), mapped_region
DoNotifyOpen ==
  /\ cpc = "dn_open"
  /\ statusExists
  /\ cpc' = "dn_lock"
  /\ UNCHANGED <<lpc, stopCtx, error, options, drive_process, segment, statusExists, ms,
                 mutexOwner, cvWaiting, lTimedOut, mount_and_wait, childOptions, hist>>

\* DoNotifyMountStatus: scoped_lock lock(mount_status->mutex)
DoNotifyLock ==
  /\ cpc = "dn_lock"
  /\ Lock("child")
  /\ cpc' = "dn_set"
  /\ UNCHANGED <<lpc, stopCtx, error, options, drive_process, segment, statusExists, ms,
                 cvWaiting, lTimedOut, mount_and_wait, childOptions, hist>>

\* DoNotifyMountStatus: mounted = mount_and_wait; condition.notify_one();
DoNotifySet ==
  /\ cpc = "dn_set"
  /\ ms' = [ms EXCEPT !.mounted = mount_and_wait]
  /\ NotifyOne
  /\ cpc' = "dn_check"
  /\ hist' = [hist EXCEPT !.notifies = @ + 1, !.lastWriter = "child",
                          !.mountedUps = @ + (IF ~ms.mounted /\ mount_and_wait THEN 1 ELSE 0),
                          !.mountedDowns = @ + (IF ms.mounted /\ ~mount_and_wait THEN 1 ELSE 0)]
  /\ UNCHANGED <<lpc, stopCtx, error, options, drive_process, segment, statusExists,
                 mutexOwner, lTimedOut, mount_and_wait, childOptions>>

\* DoNotifyMountStatus: if (mount_and_wait) condition.wait(lock, pred), pred false
DoNotifyBlock ==
  /\ cpc = "dn_check"
  /\ mount_and_wait
  /\ ~UnmountRequestedPred(ms)
  /\ mutexOwner' = NoOwner
  /\ cvWaiting' = cvWaiting \cup {"child"}
  /\ cpc' = "dn_wait"
  /\ UNCHANGED <<lpc, stopCtx, error, options, drive_process, segment, statusExists, ms,
                 lTimedOut, mount_and_wait, childOptions, hist>>

\* DoNotifyMountStatus: woken from condition.wait; re-lock the mutex
DoNotifyRelock ==
  /\ cpc = "dn_wait"
  /\ "child" \notin cvWaiting
  /\ Lock("child")
  /\ cpc' = "dn_check"
  /\ UNCHANGED <<lpc, stopCtx, error, options, drive_process, segment, statusExists, ms,
                 cvWaiting, lTimedOut, mount_and_wait, childOptions, hist>>

\* DoNotifyMountStatus returns (no wait asked for, or `unmount` is set): the
\* scoped_lock is released
DoNotifyReturn ==
  /\ cpc = "dn_check"
  /\ ~mount_and_wait \/ UnmountRequestedPred(ms)
  /\ mutexOwner' = NoOwner
  /\ cpc' = IF mount_and_wait THEN "unmounting" ELSE "exiting"
  /\ UNCHANGED <<lpc, stopCtx, error, options, drive_process, segment, statusExists, ms,
                 cvWaiting, lTimedOut, mount_and_wait, childOptions, hist>>

\* the drive process exits after NotifyUnmounted
ChildExit ==
  /\ cpc = "exiting"
  /\ cpc' = "exited"
  /\ UNCHANGED <<lpc, stopCtx, error, options, drive_process, segment, statusExists, ms,
                 mutexOwner, cvWaiting, lTimedOut, mount_and_wait, childOptions, hist>>

\* positions at which the drive process holds no lock
ChildUnlocked == {"started", "mounting", "dn_wait", "unmounting", "exiting"}

\* the drive process stops responding (it stays alive)
ChildHang ==
  /\ cpc \in ChildUnlocked
  /\ cpc' = "hung"
  /\ hist' = [hist EXCEPT !.childFaulted = TRUE]
  /\ UNCHANGED <<lpc, stopCtx, error, options, drive_process, segment, statusExists, ms,
                 mutexOwner, cvWaiting, lTimedOut, mount_and_wait, childOptions>>

\* the drive process exits on its own, outside the protocol
ChildCrash ==
  /\ cpc \in ChildUnlocked \ {"exiting"}
  /\ cpc' = "exited"
  /\ cvWaiting' = cvWaiting \ {"child"}
  /\ hist' = [hist EXCEPT !.childFaulted = TRUE]
  /\ UNCHANGED <<lpc, stopCtx, error, options, drive_process, segment, statusExists, ms,
                 mutexOwner, lTimedOut, mount_and_wait, childOptions>>

\* a condition wait may return without a notify (spurious wake-up)
SpuriousWake ==
  /\ \E p \in cvWaiting : cvWaiting' = cvWaiting \ {p}
  /\ UNCHANGED <<lpc, stopCtx, error, options, drive_process, segment, statusExists, ms,
                 mutexOwner, lTimedOut, cpc, mount_and_wait, childOptions, hist>>

\* ---------------------------------------------------------- specification

CtorStep ==
  \/ CreateInitialSharedMemory
  \/ CreateInitialSharedMemoryFails
  \/ CreateMountStatusSharedMemory
  \/ CreateMountStatusSharedMemoryFails
  \/ StartDriveProcessBadType
  \/ StartDriveProcess
  \/ StartDriveProcessFails
  \/ WaitLock
  \/ WaitMounted
  \/ WaitBlock
  \/ WaitDeadline
  \/ WaitRelock
  \/ WaitTimedOut

StopStep ==
  \/ StopEarlyReturn
  \/ StopEntry
  \/ StopLock
  \/ StopSignal
  \/ StopUnmounted
  \/ StopBlock
  \/ StopDeadline
  \/ StopRelock
  \/ StopWaitFailed
  \/ StopTerminate
  \/ StopWaitForExit

DtorStep ==
  \/ DtorRemoveInitial
  \/ DtorRemoveStatus

OwnerStep ==
  \/ ExplicitStop
  \/ Destroy

ChildStep ==
  \/ ReadAndRemoveInitialSharedMemory
  \/ NotifyMountedAndWaitForUnmountRequest
  \/ NotifyUnmounted
  \/ DoNotifyOpen
  \/ DoNotifyLock
  \/ DoNotifySet
  \/ DoNotifyBlock
  \/ DoNotifyRelock
  \/ DoNotifyReturn
  \/ ChildExit

ChildFault ==
  \/ ChildHang
  \/ ChildCrash

Next ==
  \/ CtorStep
  \/ StopStep
  \/ DtorStep
  \/ OwnerStep
  \/ ChildStep
  \/ ChildFault
  \/ SpuriousWake

Spec == Init /\ [][Next]_vars

\* The launcher's thread keeps running its straight-line code and the clock
\* reaches the deadline of every timed wait; the drive process keeps running
\* while it has a step to take.  When the owner stops or destroys the instance
\* is not forced, and neither are the faults of the drive process.
FairSpec ==
  /\ Spec
  /\ WF_vars(CtorStep)
  /\ WF_vars(StopStep)
  /\ WF_vars(DtorStep)
  /\ WF_vars(WaitDeadline)
  /\ WF_vars(StopDeadline)
  /\ WF_vars(ChildStep)

\* The same program where, in addition, taking the interprocess mutex in
\* StopDriveProcess may fail with an exception.
FaultNext ==
  \/ Next
  \/ StopLockThrows

FaultSpec == Init /\ [][FaultNext]_vars

\* ------------------------------------------------------------ properties

ConstructionFailed == lpc = "Failed"

C2_NoLeakedNamesOnFailure ==
  ConstructionFailed => (segment = NoSegment /\ ~statusExists)

\* C3: once the mount wait has timed out, construction eventually returns to
\* its caller with failed_to_mount, whatever the child does.
C3_ConstructionTerminates ==
  hist.mountTimedOut ~> (ConstructionFailed /\ error = "failed_to_mount")

\* C4: a StopDriveProcess call by the owner eventually returns with the handle
\* null, and the destructor of a mounted Launcher eventually completes
\* (Stopped) with the handle null, whatever the child does.
C4_TeardownReachesStopped ==
  /\ (stopCtx = "dtor") ~> (lpc = "Stopped" /\ drive_process = NULL)
  /\ (stopCtx = "explicit") ~> (lpc = "Idle" /\ drive_process = NULL)

\* the destructor is running and its unmount wait has returned false
DtorUnmountTimedOut ==
  stopCtx = "dtor" /\ lpc = "Stop_terminate"

\* C5: when the unmount wait of a mounted Launcher's teardown times out, the
\* child is forcibly terminated and the handle cleared, and the destructor
\* still completes with both shared-memory names removed.
C5_ForcedTerminationCompletes ==
  /\ [](hist.reachedMounted /\ hist.unmountTimedOut
          /\ lpc \in {"Idle", "Dtor_removeInitial", "Dtor_removeStatus", "Stopped"}
        => hist.terminates > 0 /\ ~ChildAlive /\ drive_process = NULL)
  /\ [](lpc = "Stopped" => segment = NoSegment /\ ~statusExists)
  /\ DtorUnmountTimedOut ~> (lpc = "Stopped")

\* the destructor completed after its unmount wait timed out on a child that
\* had stopped responding while mounted
C5_Witness ==
  /\ lpc = "Stopped"
  /\ hist.reachedMounted /\ hist.unmountTimedOut
  /\ hist.explicitStops = 0
  /\ cpc = "killed"
  /\ ms.mounted

\* C6: when construction has completed without error, the launcher's mount wait
\* observed `mounted` true and the process handle is non-null (it names the
\* spawned child).
C6_SuccessImpliesMountObserved ==
  lpc = "Mounted" =>
    /\ error = "none"
    /\ hist.observedMounted
    /\ drive_process = "child"
    /\ options.drive_type \in DriveTypes

\* a freshly constructed instance
C6_Witness ==
  lpc = "Mounted" /\ hist.reachedMounted /\ hist.explicitStops = 0

\* C7: once a StopDriveProcess call has returned, a step of a later call leaves
\* the handle, both flags, the number of notifies and of terminations, and the
\* pending error unchanged.
C7_StopIdempotent ==
  [][(hist.stopReturns >= 1 /\ StopStep) =>
       /\ drive_process' = drive_process
       /\ ms' = ms
       /\ hist'.notifies = hist.notifies
       /\ hist'.terminates = hist.terminates
       /\ error' = error
       /\ cpc' = cpc]_vars

\* a second StopDriveProcess call has returned, the first having run the
\* unmount handshake
C7_Witness ==
  hist.stopReturns >= 2 /\ hist.handshakes = 1 /\ hist.explicitStops >= 1

\* positions at which each process holds the mutex
LauncherLocked == {"Wait_check", "Stop_signal", "Stop_check", "Stop_terminate", "Stop_waitexit"}
ChildLocked == {"dn_set", "dn_check"}

\* C8: after the spawn, a step that writes `mounted` or `unmount` or notifies
\* the condition is taken by the process that holds the mutex, which still
\* holds it after the step; the two processes are never both inside their
\* locked sections.
C8_FlagsWrittenUnderMutex ==
  /\ [](~(lpc \in LauncherLocked /\ cpc \in ChildLocked))
  /\ [](lpc \in LauncherLocked => mutexOwner = "launcher")
  /\ [](cpc \in ChildLocked => mutexOwner = "child")
  /\ [][(hist.spawned /\ (ms' # ms \/ hist'.notifies # hist.notifies)) =>
          /\ mutexOwner # NoOwner
          /\ mutexOwner = hist'.lastWriter
          /\ mutexOwner' = mutexOwner]_vars

\* both sides have written their flag: the child `mounted`, the launcher `unmount`
C8_Witness ==
  ms.mounted /\ ms.unmount /\ hist.notifies = 2 /\ hist.lastWriter = "launcher"

\* C9: the handle is null in every state before a child has been spawned
\* (also when the spawn was refused) and in every state after the child was
\* seen to exit or was terminated.
C9_HandleNullWithoutChild ==
  /\ ~hist.spawned => drive_process = NULL
  /\ (hist.exitObserved \/ hist.terminates > 0) => drive_process = NULL

\* the launcher is done with the instance: construction failed or it was destroyed
LauncherDone == lpc \in {"Failed", "Stopped"}

\* C10: the region exists before the child is spawned, its name is never
\* removed while the child is alive, and it is removed exactly once.
C10_RegionLifetime ==
  /\ hist.spawned => hist.statusCreated
  /\ (hist.statusCreated /\ ~statusExists) => ~ChildAlive
  /\ hist.statusRemoves <= 1
  /\ (LauncherDone /\ hist.statusCreated) => hist.statusRemoves = 1

\* C11: when StopDriveProcess throws in the destructor, the exception is logged
\* and does not leave the destructor, which goes on to remove both names.
C11_TeardownNeverRaises ==
  hist.stopThrew = "dtor" =>
    /\ hist.logged >= 1
    /\ lpc \in {"Dtor_removeInitial", "Dtor_removeStatus", "Stopped"}
    /\ lpc = "Stopped" => (segment = NoSegment /\ ~statusExists)

\* the destructor completed although its StopDriveProcess threw, leaving the
\* handle set
C11_Witness ==
  hist.stopThrew = "dtor" /\ lpc = "Stopped" /\ drive_process = "child" /\ ~hist.raised

\* the OS refused to start the child: StartDriveProcess threw uninitialised
SpawnRefused == error = "uninitialised"

\* C12: when the spawn is refused, construction fails with uninitialised and
\* the unwind neither runs the unmount handshake (no `unmount`, no notify) nor
\* waits for or terminates a process.
C12_RefusedSpawnSkipsHandshake ==
  SpawnRefused =>
    /\ ~hist.spawned
    /\ hist.handshakes = 0
    /\ ~ms.unmount
    /\ hist.notifies = 0
    /\ hist.terminates = 0
    /\ lpc # "Stop_waitexit"

\* C13: the guard's StopDriveProcess has run exactly once when the constructor
\* has failed, and has not run when it has succeeded: then no unmount request
\* was signalled and the child was not stopped.
C13_GuardRunsOnlyOnFailure ==
  /\ ConstructionFailed => (hist.guardRuns = 1 /\ error # "none")
  /\ lpc = "Mounted" =>
       /\ hist.guardRuns = 0
       /\ error = "none"
       /\ ~ms.unmount
       /\ hist.handshakes = 0
       /\ hist.terminates = 0
       /\ hist.stopReturns = 0
       /\ drive_process = "child"

\* a successful construction whose child is mounted and waiting for the request
C13_Witness ==
  lpc = "Mounted" /\ cpc = "dn_wait" /\ ms.mounted /\ hist.guardRuns = 0

\* C14: the segment holds the six values of the constructor's Options in the
\* enum's order, the create-store flag as "1" or "0"; once the child has run
\* ReadAndRemoveInitialSharedMemory its Options carry the same six values and
\* the segment no longer exists.
C14_BootstrapRoundTrip ==
  /\ segment # NoSegment =>
       /\ segment[kMountPathArg] = options.mount_path
       /\ segment[kUniqueIdArg] = options.unique_id
       /\ segment[kCreateStoreArg] = (IF options.create_store THEN "1" ELSE "0")
  /\ hist.bootstrapRead =>
       /\ childOptions.mount_path = options.mount_path
       /\ childOptions.storage_path = options.storage_path
       /\ childOptions.unique_id = options.unique_id
       /\ childOptions.root_parent_id = options.root_parent_id
       /\ childOptions.drive_name = options.drive_name
       /\ childOptions.create_store = options.create_store
       /\ segment = NoSegment

\* the child has read a segment written with create-store true
C14_Witness ==
  /\ hist.bootstrapRead
  /\ options.create_store
  /\ childOptions.create_store
  /\ childOptions.drive_name = "MyDrive"
  /\ childOptions.unique_id = "uid"

\* positions of the child after NotifyMountedAndWaitForUnmountRequest returned
ChildUnmountPhase ==
  \/ cpc \in {"unmounting", "exiting"}
  \/ cpc \in {"dn_open", "dn_lock", "dn_set", "dn_check"} /\ ~mount_and_wait

\* C15: DoNotifyMountStatus writes its argument to `mounted` and notifies;
\* NotifyMountedAndWaitForUnmountRequest returns only when `unmount` is true;
\* NotifyUnmounted never blocks on the condition; so the child is past the
\* mounted phase only after the launcher has requested the unmount.
C15_ChildWaitsForUnmountRequest ==
  /\ [][(cpc = "dn_set" /\ cpc' = "dn_check") =>
          (ms'.mounted = mount_and_wait /\ hist'.notifies = hist.notifies + 1)]_vars
  /\ [][(cpc = "dn_check" /\ cpc' = "unmounting") => ms.unmount]_vars
  /\ [](cpc = "dn_wait" => mount_and_wait)
  /\ [](ChildUnmountPhase => (ms.unmount /\ hist.handshakes >= 1))

\* the child has returned from the wait and is about to unmount
C15_Witness ==
  cpc = "unmounting" /\ ms.unmount /\ ms.mounted /\ hist.handshakes = 1

\* C16: the launcher goes on to terminate only from an unmount wait whose
\* deadline has passed with `mounted` still true, after it has set `unmount`;
\* a termination is counted only there; and once the unmount wait has succeeded
\* (the launcher waits for the exit, or has seen it) nothing was terminated.
C16_TerminateOnlyAfterTimeout ==
  /\ [][(lpc' = "Stop_terminate" /\ lpc # "Stop_terminate") =>
          (lpc = "Stop_check" /\ lTimedOut /\ ms.unmount /\ ms.mounted)]_vars
  /\ [][hist'.terminates # hist.terminates =>
          (lpc = "Stop_terminate" /\ ms.unmount /\ hist.unmountTimedOut)]_vars
  /\ [][cpc' = "killed" /\ cpc # "killed" => hist'.terminates = hist.terminates + 1]_vars
  /\ [](lpc = "Stop_waitexit" \/ hist.exitObserved => hist.terminates = 0)

\* an explicit stop had to terminate the child after its unmount wait timed out
C16_Witness ==
  lpc = "Idle" /\ hist.terminates = 1 /\ hist.unmountTimedOut /\ cpc = "killed"

\* an execution with a spawned child that has kept to its protocol so far
ProtocolHonoured == hist.spawned /\ ~hist.childFaulted

\* the flag transitions counted so far are those of one mount and one unmount
FlagsChangeOnce ==
  /\ hist.mountedUps <= 1
  /\ hist.mountedDowns <= hist.mountedUps
  /\ hist.unmountUps <= 1
  /\ hist.unmountUps = 1 <=> ms.unmount
  /\ ms.mounted <=> (hist.mountedUps = 1 /\ hist.mountedDowns = 0)

\* C17 as claimed: with a protocol-honouring child each flag changes at most
\* once in each direction, `unmount` is never reset, and `unmount` is true only
\* after `mounted` has been true.
C17_StrictlyAlternating ==
  ProtocolHonoured => (FlagsChangeOnce /\ (ms.unmount => hist.mountedUps = 1))

\* C17 as amended: the same, except that `unmount` is true only after `mounted`
\* has been true or after the launcher's mount wait has timed out.
C17_AlternatingOrTimedOut ==
  ProtocolHonoured =>
    (FlagsChangeOnce /\ (ms.unmount => (hist.mountedUps = 1 \/ hist.mountTimedOut)))

\* one full cycle after a successful construction: mounted, unmount requested,
\* unmounted, child exited
C17_Witness ==
  /\ ProtocolHonoured /\ hist.reachedMounted
  /\ hist.mountedUps = 1 /\ hist.mountedDowns = 1 /\ hist.unmountUps = 1
  /\ cpc = "exited" /\ ~ms.mounted /\ ms.unmount

\* C18: there is no state in which the launcher waits for the child's exit
\* while holding the mutex and a protocol-honouring child is blocked taking
\* that mutex in DoNotifyMountStatus.
C18_NoHandshakeDeadlock ==
  ~(/\ lpc = "Stop_waitexit"
    /\ mutexOwner = "launcher"
    /\ cpc = "dn_lock"
    /\ ProtocolHonoured)

\* C19: a wait that finds its flag already set when it looks at it under the
\* mutex goes on without blocking (the mount wait succeeds, the child's wait
\* returns, the unmount wait succeeds), and no process stays blocked on the
\* condition while the flag it waits for is set.
C19_NoLostSignal ==
  /\ [][(lpc = "Wait_check" /\ ms.mounted /\ lpc' # lpc) => lpc' = "Mounted"]_vars
  /\ [][(cpc = "dn_check" /\ mount_and_wait /\ ms.unmount /\ cpc' # cpc) =>
          cpc' = "unmounting"]_vars
  /\ [][(lpc = "Stop_check" /\ ~ms.mounted /\ lpc' # lpc) => lpc' = "Stop_waitexit"]_vars
  /\ [](~(lpc = "Wait_wait" /\ "launcher" \in cvWaiting /\ ms.mounted))
  /\ [](~(cpc = "dn_wait" /\ "child" \in cvWaiting /\ ms.unmount))
  /\ [](~(lpc = "Stop_wait" /\ "launcher" \in cvWaiting /\ ~ms.mounted))

\* construction succeeded without the launcher ever blocking: the child had set
\* `mounted` and notified before the launcher looked
C19_Witness ==
  lpc = "Mounted" /\ ~hist.mountWaitBlocked /\ hist.mountedUps = 1 /\ hist.notifies = 1

\* the steps of WaitForDriveToMount
WaitStep ==
  \/ WaitLock
  \/ WaitMounted
  \/ WaitBlock
  \/ WaitDeadline
  \/ WaitRelock
  \/ WaitTimedOut

\* the launcher's steps after the region has been initialised
LauncherStepAfterInit ==
  \/ CtorStep /\ ~CreateMountStatusSharedMemory
  \/ StopStep
  \/ DtorStep
  \/ OwnerStep

\* C20: no launcher step after the region's initialisation changes `mounted`,
\* no step of the child-side helpers changes `unmount`, and the steps of
\* WaitForDriveToMount change neither flag nor the process handle.
C20_FlagOwnershipDisjoint ==
  /\ [][LauncherStepAfterInit => ms'.mounted = ms.mounted]_vars
  /\ [][ChildStep => ms'.unmount = ms.unmount]_vars
  /\ [][WaitStep => (ms' = ms /\ drive_process' = drive_process)]_vars
  /\ [][ms'.mounted # ms.mounted => hist'.lastWriter = "child"]_vars
  /\ [][ms'.unmount # ms.unmount => hist'.lastWriter = "launcher"]_vars

\* a destroyed instance after a full handshake: the child wrote `mounted`
\* twice, the launcher wrote `unmount` once
C20_Witness ==
  /\ lpc = "Stopped" /\ hist.reachedMounted
  /\ hist.mountedUps = 1 /\ hist.mountedDowns = 1 /\ hist.unmountUps = 1
  /\ hist.lastWriter = "child" /\ hist.exitObserved

====
